---- MODULE Spec2Model ----
(***************************************************************************)
(* A model of the Adelaide weather auditor: the ingestion script           *)
(* weather_fetcher.py (one invocation = one run of the script, stepped     *)
(* through its sections) and the evaluation filter of streamlit_app.py.    *)
(*                                                                         *)
(* Values.  Temperatures, millimetres and percentages are integers in      *)
(* hundredths (24.0 degrees = 2400).  A calendar date is its day ordinal   *)
(* (strftime('%Y-%m-%d') is one-to-one on days).  An optional value is a   *)
(* sequence: <<>> is Python's None / pandas' NaN / an empty CSV cell,      *)
(* <<v>> is the value v.  A function result is a record with a kind:       *)
(* "None", "dict", or "raise" for an exception that leaves the function.   *)
(***************************************************************************)
EXTENDS Integers, Sequences, FiniteSets, TLC

\* ---------------------------------------------------------------- bounds
\* The last calendar day the clock reaches.
MaxDay == 2
\* How many of the configured stations a model run iterates over.
NumStations == 2
\* The longest tail of samples enumerated after a feed's padding.
MaxTail == 2

\* ------------------------------------------------------- program constants
\* 8:30 AM and 10:00 AM in minutes since midnight.
WINDOW_OPEN == 510
WINDOW_CLOSE == 600
\* The fallback window of fetch_bom_actuals: data[:48].
FALLBACK_WINDOW == 48
\* "Insufficient observation data": len(data) < 2.
MIN_FEED_LEN == 2

STATION_NAMES == <<"West Terrace", "Adelaide Airport", "Mount Lofty", "Noarlunga">>

\* STATIONS.items(), in insertion order.
STATIONS == SubSeq(STATION_NAMES, 1, NumStations)

\* The three adapters, in the order the collection loop calls them.
SOURCES == <<"BOM", "Open-Meteo", "Weatherzone">>

CSV_COLUMNS ==
    <<"Date", "Station", "Source",
      "Forecast_Min_Temp", "Forecast_Max_Temp",
      "Forecast_Rain_Prob", "Forecast_Rain_Min_mm", "Forecast_Rain_Max_mm",
      "Actual_Min_Temp", "Actual_Max_Temp", "Actual_Rain_mm">>

\* ----------------------------------------------------------------- values
None == <<>>

Some(v) == <<v>>

IsNone(x) == x = <<>>

NotNone(x) == x # <<>>

ReturnNone == [kind |-> "None"]

Raise(e) == [kind |-> "raise", exc |-> e]

\* Python truthiness of a function result: None is falsy, a non-empty dict truthy.
Truthy(r) == r.kind = "dict"

Range(s) == {s[i] : i \in 1..Len(s)}

SetMax(S) == CHOOSE x \in S : \A y \in S : y <= x

SetMin(S) == CHOOSE x \in S : \A y \in S : x <= y

MinOf(a, b) == IF a <= b THEN a ELSE b

\* s[:n]
Prefix(s, n) == SubSeq(s, 1, MinOf(n, Len(s)))

\* ------------------------------------------------------ forecast adapters
\* What the forecast functions return on success.
ForecastDict(mn, mx, prob, rmin, rmax) ==
    [kind |-> "dict",
     Forecast_Min_Temp |-> mn,
     Forecast_Max_Temp |-> mx,
     Forecast_Rain_Prob |-> prob,
     Forecast_Rain_Min_mm |-> rmin,
     Forecast_Rain_Max_mm |-> rmax]

\* The BOM forecast page, as the <dt>/<dd> scan sees it:
\*   http   "ok" | "error"  (requests raises a RequestException)
\*   parse  "ok" | "error"  (BeautifulSoup or the scan raises something else)
\*   min, max, prob         the first matching label's number, or None
\*   rain                   the numbers of the first 'possible rainfall' value
bom_rain_min(page) ==
    IF Len(page.rain) >= 1 THEN page.rain[1] ELSE 0

bom_rain_max(page) ==
    IF Len(page.rain) >= 2 THEN page.rain[2]
    ELSE IF Len(page.rain) = 1 THEN page.rain[1] ELSE 0

fetch_bom_forecast(page) ==
    IF page.http = "error" THEN ReturnNone
    ELSE IF page.parse = "error" THEN ReturnNone
    ELSE IF IsNone(page.max) THEN ReturnNone
    ELSE ForecastDict(page.min, page.max, page.prob,
                      Some(bom_rain_min(page)), Some(bom_rain_max(page)))

\* An Open-Meteo response:
\*   http   "ok" | "error"     (timeout, non-2xx: a RequestException)
\*   json   "ok" | "invalid"   (res.json() raises a ValueError)
\*   daily  "absent" | "null" | "dict"   the top-level 'daily' entry
\*   temperature_2m_max, ... each a field of 'daily':
\*       [shape |-> "missing"]            the key is absent
\*       [shape |-> "null"]               the key holds JSON null
\*       [shape |-> "empty"]              the key holds []
\*       [shape |-> "list", v |-> opt]    the key holds [v] or [null]
\* daily.get(key, [None])[0]: the step a field's shape leads to.
om_field_step(f) ==
    CASE f.shape = "missing" -> "value"
      [] f.shape = "list" -> "value"
      [] f.shape = "empty" -> "IndexError"
      [] OTHER -> "TypeError"

om_field_value(f) ==
    IF f.shape = "list" THEN f.v ELSE None

om_fields(resp) ==
    <<resp.temperature_2m_max, resp.temperature_2m_min,
      resp.precipitation_sum, resp.precipitation_probability_max>>

\* The first of the four subscripts, in program order, that fails.
om_first_error(resp) ==
    LET steps == [k \in 1..Len(om_fields(resp)) |-> om_field_step(om_fields(resp)[k])]
        bad == {k \in DOMAIN steps : steps[k] # "value"}
    IN IF bad = {} THEN "none" ELSE steps[SetMin(bad)]

\* The except clauses of fetch_open_meteo: which exceptions become None.
om_caught(exc) == exc \in {"RequestException", "KeyError", "IndexError", "ValueError"}

om_except(exc) == IF om_caught(exc) THEN ReturnNone ELSE Raise(exc)

fetch_open_meteo(resp) ==
    IF resp.http = "error" THEN om_except("RequestException")
    ELSE IF resp.json = "invalid" THEN om_except("ValueError")
    ELSE IF resp.daily = "absent" THEN ReturnNone
    ELSE IF resp.daily = "null" THEN om_except("AttributeError")
    ELSE IF om_first_error(resp) # "none" THEN om_except(om_first_error(resp))
    ELSE LET max_temp == om_field_value(resp.temperature_2m_max)
             min_temp == om_field_value(resp.temperature_2m_min)
             rain_sum == om_field_value(resp.precipitation_sum)
             rain_prob == om_field_value(resp.precipitation_probability_max)
         IN IF IsNone(max_temp) \/ IsNone(min_temp) THEN ReturnNone
            ELSE ForecastDict(min_temp, max_temp, rain_prob,
                              IF NotNone(rain_sum) THEN rain_sum ELSE Some(0),
                              IF NotNone(rain_sum) THEN rain_sum ELSE Some(0))

\* The Weatherzone page, as the two strategies see it:
\*   http, parse      as for the BOM page
\*   cls_max, cls_min the number in the first element whose class matches, or None
\*   degrees          the integers followed by a degree sign, in page order
\*   prob             the first percentage, or None
\*   rain_range       the two numbers of the first 'a-b mm' text, or <<>>
\*   rain_single      the number of the first 'a mm' text, or None
wz_temps(page) == Range(Prefix(page.degrees, 4))

wz_strategy2(page) == IsNone(page.cls_max) /\ Len(page.degrees) >= 2

wz_max_temp(page) ==
    IF NotNone(page.cls_max) THEN page.cls_max
    ELSE IF wz_strategy2(page) THEN Some(SetMax(wz_temps(page)))
    ELSE None

wz_min_temp(page) ==
    IF wz_strategy2(page) THEN Some(SetMin(wz_temps(page))) ELSE page.cls_min

wz_rain_min(page) ==
    IF Len(page.rain_range) >= 2 THEN page.rain_range[1]
    ELSE IF NotNone(page.rain_single) THEN page.rain_single[1] ELSE 0

wz_rain_max(page) ==
    IF Len(page.rain_range) >= 2 THEN page.rain_range[2]
    ELSE IF NotNone(page.rain_single) THEN page.rain_single[1] ELSE 0

scrape_weatherzone(page) ==
    IF page.http = "error" THEN ReturnNone
    ELSE IF page.parse = "error" THEN ReturnNone
    ELSE IF IsNone(wz_max_temp(page)) THEN ReturnNone
    ELSE ForecastDict(wz_min_temp(page), wz_max_temp(page), page.prob,
                      Some(wz_rain_min(page)), Some(wz_rain_max(page)))

\* ------------------------------------------------------- actuals resolver
\* What fetch_bom_actuals returns on success.
ActualsDict(mn, mx, rain) ==
    [kind |-> "dict",
     Actual_Min_Temp |-> mn,
     Actual_Max_Temp |-> mx,
     Actual_Rain_mm |-> rain]

\* float() on the rain_trace strings of the model, in hundredths of a mm; a
\* string outside the domain makes float() raise ValueError.
FloatOf == [s \in {"0", "0.0", "0.4", "12.6"} |->
              CASE s = "0.4" -> 40 [] s = "12.6" -> 1260 [] OTHER -> 0]

\* data[0].get('rain_trace', '0'): the entry of the newest sample,
\*   [t |-> "absent"]            no such key: the default '0'
\*   [t |-> "null"]              JSON null
\*   [t |-> "str", s |-> text]   a string
\*   [t |-> "list"]              a non-empty JSON array (an unexpected type)
rain_get(sample) ==
    IF sample.rain_trace.t = "absent" THEN [t |-> "str", s |-> "0"]
    ELSE sample.rain_trace

\* "if rain and rain != '-'": whether float(rain) is attempted.
rain_is_parsed(rain) ==
    CASE rain.t = "null" -> FALSE
      [] rain.t = "str" -> rain.s # "" /\ rain.s # "-"
      [] OTHER -> TRUE

\* The exception float(rain) raises past its own "except ValueError", if any.
rain_error(rain) ==
    IF rain_is_parsed(rain) /\ rain.t = "list" THEN "TypeError" ELSE "none"

rain_mm(rain) ==
    IF rain_is_parsed(rain) /\ rain.t = "str" /\ rain.s \in DOMAIN FloatOf
    THEN FloatOf[rain.s]
    ELSE 0

\* The except clauses of fetch_bom_actuals: which exceptions become None.
actuals_caught(exc) ==
    exc \in {"RequestException", "KeyError", "IndexError", "ValueError"}

actuals_except(exc) == IF actuals_caught(exc) THEN ReturnNone ELSE Raise(exc)

\* "obs_date == yesterday_date and obs.get('air_temp') is not None", for a
\* sample whose local_date_time_full is present.
is_yesterday_obs(obs, yesterday) ==
    /\ NotNone(obs.local_date_time_full)
    /\ obs.local_date_time_full = Some(yesterday)
    /\ NotNone(obs.air_temp)

has_air_temp(obs) == NotNone(obs.air_temp)

\* A fallback that scans the whole feed instead of data[:48].
yesterday_obs_unbounded(data, yesterday) ==
    LET dated == SelectSeq(data, LAMBDA obs : is_yesterday_obs(obs, yesterday))
    IN IF dated # <<>> THEN dated ELSE SelectSeq(data, has_air_temp)

\* The observations the temperatures are taken over: yesterday's, or else
\* the fallback data[:48].
yesterday_obs(data, yesterday) ==
    LET dated == SelectSeq(data, LAMBDA obs : is_yesterday_obs(obs, yesterday))
    IN IF dated # <<>> THEN dated
       ELSE SelectSeq(Prefix(data, FALLBACK_WINDOW), has_air_temp)

insufficient_data(data) == data = <<>> \/ Len(data) < MIN_FEED_LEN

air_temps(obs_seq) == {obs_seq[k].air_temp[1] : k \in 1..Len(obs_seq)}

\* A fetch of the observation feed:
\*   http          "ok" | "error"   (timeout or connection error)
\*   status_code   the HTTP status
\*   json          "ok" | "invalid"
\*   observations  "dict" | "absent" | "null"   the top-level entry
\*   data          the samples, newest first
fetch_bom_actuals(feed, yesterday) ==
    IF feed.http = "error" THEN actuals_except("RequestException")
    ELSE IF feed.status_code # 200 THEN ReturnNone
    ELSE IF feed.json = "invalid" THEN actuals_except("ValueError")
    ELSE IF feed.observations = "absent" THEN actuals_except("KeyError")
    ELSE IF feed.observations = "null" THEN actuals_except("TypeError")
    ELSE IF insufficient_data(feed.data) THEN ReturnNone
    ELSE LET obs == yesterday_obs(feed.data, yesterday)
             rain == rain_get(feed.data[1])
         IN IF obs = <<>> THEN ReturnNone
            ELSE IF rain_error(rain) # "none" THEN actuals_except(rain_error(rain))
            ELSE ActualsDict(Some(SetMin(air_temps(obs))),
                             Some(SetMax(air_temps(obs))),
                             Some(rain_mm(rain)))

\* ----------------------------------------------------- inputs of the runs
\* The documents the network hands to the adapters during a pipeline run:
\* for each adapter one that parses to a forecast and the failures it meets.
BomPages ==
    {[http |-> "error", parse |-> "ok", min |-> None, max |-> None,
      prob |-> None, rain |-> <<>>],
     [http |-> "ok", parse |-> "ok", min |-> Some(1300), max |-> None,
      prob |-> Some(4000), rain |-> <<>>],
     [http |-> "ok", parse |-> "ok", min |-> None, max |-> Some(2400),
      prob |-> None, rain |-> <<0, 100>>]}

OmField(v) == [shape |-> "list", v |-> v]

OmResponse(http, daily, tmax) ==
    [http |-> http, json |-> "ok", daily |-> daily,
     temperature_2m_max |-> tmax,
     temperature_2m_min |-> OmField(Some(1250)),
     precipitation_sum |-> OmField(None),
     precipitation_probability_max |-> [shape |-> "missing"]]

OmResponses ==
    {OmResponse("error", "absent", OmField(None)),
     OmResponse("ok", "dict", OmField(None)),
     OmResponse("ok", "dict", OmField(Some(2310))),
     OmResponse("ok", "dict", [shape |-> "null"])}

WzPages ==
    {[http |-> "ok", parse |-> "error", cls_max |-> None, cls_min |-> None,
      degrees |-> <<>>, prob |-> None, rain_range |-> <<>>, rain_single |-> None],
     [http |-> "ok", parse |-> "ok", cls_max |-> None, cls_min |-> Some(900),
      degrees |-> <<2200, 1400, 2500, 1100, 3000>>, prob |-> Some(2000),
      rain_range |-> <<>>, rain_single |-> Some(50)]}

Sample(date, temp, rain) ==
    [local_date_time_full |-> date, air_temp |-> temp, rain_trace |-> rain]

RainStr(s) == [t |-> "str", s |-> s]

Feed(http, status, observations, data) ==
    [http |-> http, status_code |-> status, json |-> "ok",
     observations |-> observations, data |-> data]

\* The observation feeds a pipeline run meets when it resolves `yesterday`:
\* an HTTP error status, a body whose 'observations' is null, a feed with
\* yesterday's samples, and a lagging feed that leads to the fallback window.
RunFeeds(yesterday) ==
    {Feed("ok", 503, "dict", <<>>),
     Feed("ok", 200, "null", <<>>),
     Feed("ok", 200, "dict",
          <<Sample(Some(yesterday + 1), Some(1900), RainStr("0.4")),
            Sample(Some(yesterday), Some(2210), RainStr("0.4")),
            Sample(Some(yesterday), None, RainStr("-")),
            Sample(Some(yesterday), Some(1180), RainStr("0.0"))>>),
     Feed("ok", 200, "dict",
          <<Sample(None, Some(2050), RainStr("-")),
            Sample(Some(yesterday - 1), Some(1520), RainStr("12.6"))>>)}

\* The minutes since midnight at which the scheduler starts the script.
StartTimes == {WINDOW_OPEN - 1, WINDOW_OPEN, WINDOW_CLOSE, WINDOW_CLOSE + 1}

\* ------------------------------------------------------------------ state
VARIABLES
    now,                \* the calendar day of the Adelaide clock
    csv,                \* weather_history.csv: the persisted ledger rows
    pc,                 \* "idle" (no process) or the section the run is in
    today_str,          \* the run's today
    yesterday_str,      \* the run's yesterday
    df_history,         \* the ledger as loaded, updated in place
    already_ran_today,  \* the duplicate guard
    new_records,        \* the forecasts collected by this run
    i,                  \* the station the current loop is at
    j,                  \* the adapter the collection loop is at
    feed,               \* the observation feed last fetched
    actuals,            \* what fetch_bom_actuals last returned
    fetched,            \* history: the (station, source) whose adapter returned a forecast
    failed,             \* history: the (station, source) whose adapter returned None
    resolver_calls,     \* history: the (station, date) fetch_bom_actuals was called for
    resolved,           \* history: the stations fetch_bom_actuals returned actuals for
    warned,             \* history: the stations the "No forecast rows" warning named
    exit,               \* history: how the latest invocation ended
    last_saved_day,     \* history: today of the latest run that saved, 0 if none
    show_perfect_only,  \* the dashboard's "Show 'Perfect Days' Only" checkbox
    df_display          \* the dashboard's df_display

vars ==
    <<now, csv, pc, today_str, yesterday_str, df_history, already_ran_today,
      new_records, i, j, feed, actuals, fetched, failed, resolver_calls,
      resolved, warned, exit, last_saved_day, show_perfect_only, df_display>>

program_vars ==
    <<today_str, yesterday_str, df_history, already_ran_today, new_records, i, j>>

history_vars == <<fetched, failed, resolver_calls, resolved, warned>>

dashboard_vars == <<show_perfect_only, df_display>>

\* time_in_minutes passes the 9 AM guard.
in_window(time_in_minutes) ==
    WINDOW_OPEN <= time_in_minutes /\ time_in_minutes <= WINDOW_CLOSE

\* df[CSV_COLUMNS] followed by to_csv and a later read_csv: the eleven
\* columns of every row, a missing value as an empty cell.
to_csv(df) ==
    [k \in 1..Len(df) |->
        [c \in Range(CSV_COLUMNS) |-> df[k][c]]]

read_csv(file) == file

\* A duplicate guard that looks for yesterday's date.
date_in_history_yesterday(df, today) ==
    \E k \in 1..Len(df) : df[k].Date = today - 1

\* A duplicate guard that never finds the date.
date_in_history_never(df, today) == FALSE

\* today_str in df_history['Date'].values
date_in_history(df, today) == \E k \in 1..Len(df) : df[k].Date = today

\* The dict appended to new_records.
new_record(today, station_name, source, data) ==
    [Date |-> today, Station |-> station_name, Source |-> source,
     Forecast_Min_Temp |-> data.Forecast_Min_Temp,
     Forecast_Max_Temp |-> data.Forecast_Max_Temp,
     Forecast_Rain_Prob |-> data.Forecast_Rain_Prob,
     Forecast_Rain_Min_mm |-> data.Forecast_Rain_Min_mm,
     Forecast_Rain_Max_mm |-> data.Forecast_Rain_Max_mm]

\* pd.DataFrame(new_records) with the columns it lacks added as pd.NA.
df_new(records) ==
    [k \in 1..Len(records) |->
        [c \in Range(CSV_COLUMNS) |->
            IF c \in DOMAIN records[k] THEN records[k][c] ELSE None]]

\* A mask that selects the rows of the run's own date.
mask_run_date(row, yesterday, station_name) ==
    row.Date = yesterday + 1 /\ row.Station = station_name

\* (df_history['Date'] == yesterday_str) & (df_history['Station'] == station_name)
mask(row, yesterday, station_name) ==
    row.Date = yesterday /\ row.Station = station_name

\* A backfill that leaves out the rainfall assignment.
set_actuals_temps_only(row, a) ==
    [row EXCEPT !.Actual_Min_Temp = a.Actual_Min_Temp,
                !.Actual_Max_Temp = a.Actual_Max_Temp]

\* The three df_history.loc[mask, ...] assignments on one row.
set_actuals(row, a) ==
    [row EXCEPT !.Actual_Min_Temp = a.Actual_Min_Temp,
                !.Actual_Max_Temp = a.Actual_Max_Temp,
                !.Actual_Rain_mm = a.Actual_Rain_mm]

\* A backfill that writes to the first matching row only.
update_actuals_first_match(df, yesterday, station_name, a) ==
    [k \in 1..Len(df) |->
        IF /\ mask(df[k], yesterday, station_name)
           /\ \A m \in 1..(k - 1) : ~mask(df[m], yesterday, station_name)
        THEN set_actuals(df[k], a)
        ELSE df[k]]

\* A backfill whose mask tests the date alone.
update_actuals_whole_date(df, yesterday, station_name, a) ==
    [k \in 1..Len(df) |->
        IF df[k].Date = yesterday THEN set_actuals(df[k], a) ELSE df[k]]

\* The body of the backfill loop for one station whose actuals are truthy.
update_actuals(df, yesterday, station_name, a) ==
    [k \in 1..Len(df) |->
        IF mask(df[k], yesterday, station_name) THEN set_actuals(df[k], a)
        ELSE df[k]]

\* A save that writes the new rows in place of the history.
df_final_new_only(history, records) ==
    IF records # <<>> THEN df_new(records) ELSE history

\* df_final of the SAVE section.
df_final(history, records) ==
    IF records # <<>> THEN history \o df_new(records) ELSE history

NoFeed == Feed("none", 0, "absent", <<>>)

\* ---------------------------------------------------------------- actions
Init ==
    /\ now = 1
    /\ csv = <<>>
    /\ pc = "idle"
    /\ today_str = 0
    /\ yesterday_str = 0
    /\ df_history = <<>>
    /\ already_ran_today = FALSE
    /\ new_records = <<>>
    /\ i = 1
    /\ j = 1
    /\ feed = NoFeed
    /\ actuals = ReturnNone
    /\ fetched = {}
    /\ failed = {}
    /\ resolver_calls = <<>>
    /\ resolved = {}
    /\ warned = {}
    /\ exit = "none"
    /\ last_saved_day = 0
    /\ show_perfect_only = FALSE
    /\ df_display = <<>>

\* No process is running: before the first invocation, or after one ended.
no_process == pc \in {"idle", "exited"}

\* What the history variables hold when no invocation is on record.
ForgetInvocation ==
    /\ today_str' = 0
    /\ yesterday_str' = 0
    /\ already_ran_today' = FALSE
    /\ fetched' = {}
    /\ failed' = {}
    /\ resolver_calls' = <<>>
    /\ resolved' = {}
    /\ warned' = {}
    /\ exit' = "none"

\* Midnight passes between two invocations of the script; the record of the
\* latest invocation is kept until then.
Tick ==
    /\ no_process
    /\ now < MaxDay
    /\ now' = now + 1
    /\ pc' = "idle"
    /\ ForgetInvocation
    /\ UNCHANGED <<csv, df_history, new_records, i, j, feed, actuals,
                   last_saved_day, dashboard_vars>>

\* The process ends and its memory with it.
ProcessEnds ==
    /\ pc' = "exited"
    /\ df_history' = <<>>
    /\ new_records' = <<>>
    /\ i' = 1
    /\ j' = 1
    /\ feed' = NoFeed
    /\ actuals' = ReturnNone

\* An exception leaves a function and ends the script with a traceback,
\* before the SAVE section: the file keeps what it held.
Traceback ==
    /\ ProcessEnds
    /\ exit' = "exception"
    /\ UNCHANGED <<now, csv, today_str, yesterday_str, already_ran_today,
                   last_saved_day, dashboard_vars>>

\* The script is started outside 8:30-10:00 and exits at the 9 AM guard.
ExitOutsideWindow ==
    /\ no_process
    /\ \E time_in_minutes \in StartTimes : ~in_window(time_in_minutes)
    /\ pc' = "exited"
    /\ today_str' = now
    /\ yesterday_str' = now - 1
    /\ already_ran_today' = FALSE
    /\ fetched' = {}
    /\ failed' = {}
    /\ resolver_calls' = <<>>
    /\ resolved' = {}
    /\ warned' = {}
    /\ exit' = "outside_window"
    /\ UNCHANGED <<now, csv, df_history, new_records, i, j, feed, actuals,
                   last_saved_day, dashboard_vars>>

\* The script is started inside the window: sections 1 up to the duplicate guard.
StartRun ==
    /\ no_process
    /\ \E time_in_minutes \in StartTimes : in_window(time_in_minutes)
    /\ today_str' = now
    /\ yesterday_str' = now - 1
    /\ df_history' = read_csv(csv)
    /\ already_ran_today' = date_in_history(read_csv(csv), now)
    /\ new_records' = <<>>
    /\ pc' = IF date_in_history(read_csv(csv), now) THEN "actuals" ELSE "forecast"
    /\ i' = 1
    /\ j' = 1
    /\ fetched' = {}
    /\ failed' = {}
    /\ resolver_calls' = <<>>
    /\ resolved' = {}
    /\ warned' = {}
    /\ exit' = "none"
    /\ UNCHANGED <<now, csv, feed, actuals, last_saved_day, dashboard_vars>>

\* One adapter call of the collection loop and the "if data:" after it.
Collect(source, data) ==
    /\ pc = "forecast"
    /\ SOURCES[j] = source
    /\ IF data.kind = "raise"
       THEN /\ Traceback
            /\ UNCHANGED history_vars
       ELSE /\ new_records' =
                 IF Truthy(data)
                 THEN Append(new_records,
                             new_record(today_str, STATIONS[i], source, data))
                 ELSE new_records
            /\ fetched' = IF Truthy(data) THEN fetched \cup {<<STATIONS[i], source>>}
                          ELSE fetched
            /\ failed' = IF Truthy(data) THEN failed
                         ELSE failed \cup {<<STATIONS[i], source>>}
            /\ j' = IF j < Len(SOURCES) THEN j + 1 ELSE 1
            /\ i' = IF j < Len(SOURCES) THEN i
                    ELSE IF i < Len(STATIONS) THEN i + 1 ELSE 1
            /\ pc' = IF j = Len(SOURCES) /\ i = Len(STATIONS) THEN "actuals"
                     ELSE "forecast"
            /\ UNCHANGED <<now, csv, today_str, yesterday_str, df_history,
                           already_ran_today, feed, actuals, resolver_calls,
                           resolved, warned, exit, last_saved_day,
                           dashboard_vars>>

FetchBom == \E page \in BomPages : Collect("BOM", fetch_bom_forecast(page))

FetchOpenMeteo == \E resp \in OmResponses : Collect("Open-Meteo", fetch_open_meteo(resp))

ScrapeWeatherzone == \E page \in WzPages : Collect("Weatherzone", scrape_weatherzone(page))

\* mask.any()
mask_any(df, yesterday, station_name) ==
    \E k \in 1..Len(df) : mask(df[k], yesterday, station_name)

\* One iteration of the backfill loop.
ResolveActuals ==
    /\ pc = "actuals"
    /\ \E f \in RunFeeds(yesterday_str) :
         LET station_name == STATIONS[i]
             a == fetch_bom_actuals(f, yesterday_str)
         IN /\ resolver_calls' =
                 Append(resolver_calls,
                        [station |-> station_name, date |-> yesterday_str])
            /\ IF a.kind = "raise"
               THEN /\ Traceback
                    /\ UNCHANGED <<fetched, failed, resolved, warned>>
               ELSE /\ feed' = f
                    /\ actuals' = a
                    /\ df_history' =
                         IF Truthy(a) /\ mask_any(df_history, yesterday_str, station_name)
                         THEN update_actuals(df_history, yesterday_str, station_name, a)
                         ELSE df_history
                    /\ resolved' = IF Truthy(a) THEN resolved \cup {station_name}
                                   ELSE resolved
                    /\ warned' =
                         IF Truthy(a) /\ ~mask_any(df_history, yesterday_str, station_name)
                         THEN warned \cup {station_name}
                         ELSE warned
                    /\ i' = IF i < Len(STATIONS) THEN i + 1 ELSE 1
                    /\ pc' = IF i < Len(STATIONS) THEN "actuals" ELSE "save"
                    /\ UNCHANGED <<now, csv, today_str, yesterday_str,
                                   already_ran_today, new_records, j, fetched,
                                   failed, exit, last_saved_day, dashboard_vars>>

\* Section 5: the combined table replaces the file.
Save ==
    /\ pc = "save"
    /\ csv' = to_csv(df_final(df_history, new_records))
    /\ ProcessEnds
    /\ exit' = "complete"
    /\ last_saved_day' = today_str
    /\ UNCHANGED <<now, today_str, yesterday_str, already_ran_today, history_vars,
                   dashboard_vars>>

Next ==
    \/ Tick
    \/ ExitOutsideWindow
    \/ StartRun
    \/ FetchBom
    \/ FetchOpenMeteo
    \/ ScrapeWeatherzone
    \/ ResolveActuals
    \/ Save

Spec == Init /\ [][Next]_vars

\* ------------------------------------------------------ the resolver alone
\* A sample that has neither a date nor a temperature: the padding that puts
\* the enumerated samples at the positions around data[:48].
PadSample == Sample(None, None, RainStr("-"))

Pad(n) == [k \in 1..n |-> PadSample]

PadLengths == {0, FALLBACK_WINDOW - 2, FALLBACK_WINDOW - 1, FALLBACK_WINDOW}

RainTraces ==
    {[t |-> "absent"], [t |-> "null"], [t |-> "list"],
     RainStr("-"), RainStr(""), RainStr("0.4"), RainStr("Tce")}

SampleDates(yesterday) == {None, Some(yesterday), Some(yesterday + 1)}

SampleTemps == {None, Some(1180), Some(2210)}

Samples(yesterday) ==
    {Sample(d, t, RainStr("-")) : d \in SampleDates(yesterday), t \in SampleTemps}

RECURSIVE SeqsUpTo(_, _)
\* The sequences over S of length at most n.
SeqsUpTo(S, n) ==
    IF n = 0 THEN {<<>>}
    ELSE LET shorter == SeqsUpTo(S, n - 1)
         IN shorter \cup {Append(q, x) : q \in {t \in shorter : Len(t) = n - 1}, x \in S}

\* The samples `data` with rain trace r in the newest one.
WithRain(data, r) ==
    [k \in 1..Len(data) |-> IF k = 1 THEN [data[k] EXCEPT !.rain_trace = r] ELSE data[k]]

\* The feeds fetch_bom_actuals is applied to on its own: every transport and
\* body shape, and every short tail of samples behind every padding, with
\* every rain trace in the newest sample.
BoundedFeeds(yesterday) ==
    {Feed("error", 0, "absent", <<>>),
     Feed("ok", 404, "dict", <<>>),
     [Feed("ok", 200, "absent", <<>>) EXCEPT !.json = "invalid"],
     Feed("ok", 200, "absent", <<>>),
     Feed("ok", 200, "null", <<>>)}
    \cup {Feed("ok", 200, "dict", WithRain(Pad(n) \o tail, r)) :
            n \in PadLengths, tail \in SeqsUpTo(Samples(yesterday), MaxTail),
            r \in RainTraces}

\* The call has not returned yet.
Pending == [kind |-> "pending"]

\* The resolver is about to be called with some feed for some yesterday.
InitResolver ==
    /\ now = 1
    /\ csv = <<>>
    /\ pc = "resolver"
    /\ today_str \in 1..MaxDay
    /\ yesterday_str = today_str - 1
    /\ df_history = <<>>
    /\ already_ran_today = FALSE
    /\ new_records = <<>>
    /\ i = 1
    /\ j = 1
    /\ feed \in BoundedFeeds(yesterday_str)
    /\ actuals = Pending
    /\ fetched = {}
    /\ failed = {}
    /\ resolver_calls = <<>>
    /\ resolved = {}
    /\ warned = {}
    /\ exit = "none"
    /\ last_saved_day = 0
    /\ show_perfect_only = FALSE
    /\ df_display = <<>>

\* One call of fetch_bom_actuals; `actuals` keeps what it returned or raised.
CallResolver ==
    /\ pc = "resolver"
    /\ actuals = Pending
    /\ actuals' = fetch_bom_actuals(feed, yesterday_str)
    /\ UNCHANGED <<now, csv, pc, program_vars, feed, history_vars, exit,
                   last_saved_day, dashboard_vars>>

NextResolver == CallResolver

SpecResolver == InitResolver /\ [][NextResolver]_vars

\* ------------------------------------------- the pipeline on an older ledger
\* The forecast each adapter returns for its parseable document.
BomForecast ==
    fetch_bom_forecast(CHOOSE page \in BomPages : Truthy(fetch_bom_forecast(page)))

OmForecast ==
    fetch_open_meteo(CHOOSE resp \in OmResponses : Truthy(fetch_open_meteo(resp)))

WzForecast ==
    scrape_weatherzone(CHOOSE page \in WzPages : Truthy(scrape_weatherzone(page)))

AdapterForecasts == <<BomForecast, OmForecast, WzForecast>>

\* new_records of a run on `today` whose adapters all returned a forecast
\* for the first n stations and a failure for the others.
CollectedOn(today, n) ==
    [k \in 1..(n * Len(SOURCES)) |->
        new_record(today, STATIONS[((k - 1) \div Len(SOURCES)) + 1],
                   SOURCES[((k - 1) % Len(SOURCES)) + 1],
                   AdapterForecasts[((k - 1) % Len(SOURCES)) + 1])]

\* The ledgers left by a run on the day before `today` and a run on `today`
\* whose resolver returned no actuals: the rows of the earlier day, for
\* every station or for the first only, and the rows of `today`, none
\* holding actuals.
OlderLedgers(today) ==
    {to_csv(df_final(to_csv(df_final(<<>>, CollectedOn(today - 1, n))),
                     CollectedOn(today, Len(STATIONS)))) :
        n \in {1, Len(STATIONS)}}

\* The first run of day 1 has saved; the ledger holds the rows of day 0.
InitBackfill ==
    /\ now = 1
    /\ csv \in OlderLedgers(1)
    /\ pc = "exited"
    /\ today_str = 1
    /\ yesterday_str = 0
    /\ df_history = <<>>
    /\ already_ran_today = FALSE
    /\ new_records = <<>>
    /\ i = 1
    /\ j = 1
    /\ feed = NoFeed
    /\ actuals = ReturnNone
    /\ fetched = {<<STATIONS[a], SOURCES[b]>> : a \in 1..Len(STATIONS), b \in 1..Len(SOURCES)}
    /\ failed = {}
    /\ resolver_calls =
         [k \in 1..Len(STATIONS) |-> [station |-> STATIONS[k], date |-> 0]]
    /\ resolved = {}
    /\ warned = {}
    /\ exit = "complete"
    /\ last_saved_day = 1
    /\ show_perfect_only = FALSE
    /\ df_display = <<>>

SpecBackfill == InitBackfill /\ [][Next]_vars

\* -------------------------------------------------------------- evaluation
\* An evaluation filter that keeps every row with a forecast maximum.
df_eval_forecast_only(df) ==
    SelectSeq(df, LAMBDA r : NotNone(r.Forecast_Max_Temp))

\* streamlit_app.py: dropna on the two actual temperatures, then on the
\* forecast maximum.
df_eval(df) ==
    SelectSeq(SelectSeq(df, LAMBDA r : NotNone(r.Actual_Min_Temp)
                                       /\ NotNone(r.Actual_Max_Temp)),
              LAMBDA r : NotNone(r.Forecast_Max_Temp))

\* ---------------------------------------------------- the grading columns
\* The ledger's temperatures are decimals of at most two places, hundredths
\* in the model; pandas reads each into the nearest IEEE-754 double, whose
\* 53-bit significand cannot hold most of them.
SIGNIFICAND_BITS == 52

RECURSIVE Pow2Mod100(_)
\* 2^k modulo 100.
Pow2Mod100(k) == IF k = 0 THEN 1 ELSE (2 * Pow2Mod100(k - 1)) % 100

\* The exponent e of the double nearest h/100: 2^e <= h/100 < 2^(e+1), for
\* the temperatures from 1.00 up to 127.99.
Binade(h) == CHOOSE e \in 0..6 : 100 * 2^e <= h /\ h < 100 * 2^(e + 1)

\* double(h/100) - h/100, in hundredths of the unit in the last place of
\* h/100's binade (round to nearest; a tie cannot occur).
FloatResidue(h) ==
    LET r == ((h % 100) * Pow2Mod100(SIGNIFICAND_BITS - Binade(h))) % 100
    IN IF r < 50 THEN 0 - r ELSE 100 - r

\* abs(Forecast_Max_Temp - Actual_Max_Temp) on doubles.  The value is
\* hundredths/100 + residue/100 units in the last place of the smaller
\* operand.  Operands within a factor of two subtract exactly; further apart
\* the difference exceeds 1.0 by more than any rounding, and residue is 0.
Max_Temp_Error(f, a) ==
    LET hi == IF f >= a THEN f ELSE a
        lo == IF f >= a THEN a ELSE f
        shift == Binade(hi) - Binade(lo)
    IN [hundredths |-> hi - lo,
        residue |-> IF shift <= 1
                    THEN (2^shift) * FloatResidue(hi) - FloatResidue(lo)
                    ELSE 0]

\* df_display['Max_Temp_Error'] <= 1.0
error_le_one(e) ==
    e.hundredths < 100 \/ (e.hundredths = 100 /\ e.residue <= 0)

\* (Actual_Rain_mm >= Forecast_Rain_Min_mm) & (Actual_Rain_mm <= Forecast_Rain_Max_mm):
\* a comparison with NaN is False; rounding to the nearest double keeps the
\* order of the decimals.
Rain_Success(r) ==
    /\ NotNone(r.Actual_Rain_mm)
    /\ NotNone(r.Forecast_Rain_Min_mm)
    /\ NotNone(r.Forecast_Rain_Max_mm)
    /\ r.Actual_Rain_mm[1] >= r.Forecast_Rain_Min_mm[1]
    /\ r.Actual_Rain_mm[1] <= r.Forecast_Rain_Max_mm[1]

\* The columns the perfect-day filter reads, added to a row of df_eval.
with_errors(r) ==
    [c \in Range(CSV_COLUMNS) \cup {"Max_Temp_Error", "Rain_Success"} |->
        CASE c = "Max_Temp_Error" ->
                 Max_Temp_Error(r.Forecast_Max_Temp[1], r.Actual_Max_Temp[1])
          [] c = "Rain_Success" -> Rain_Success(r)
          [] OTHER -> r[c]]

\* df_eval with its computed columns.
graded(df) == [k \in 1..Len(df_eval(df)) |-> with_errors(df_eval(df)[k])]

\* df_display[(df_display['Max_Temp_Error'] <= 1.0) & (df_display['Rain_Success'])]
perfect_days(df) ==
    SelectSeq(df, LAMBDA r : error_le_one(r.Max_Temp_Error) /\ r.Rain_Success)

\* ---------------------------------------------------- the dashboard alone
LedgerRow(fmin, fmax, rmin, rmax, amin, amax, arain) ==
    [Date |-> 1, Station |-> STATION_NAMES[1], Source |-> "Open-Meteo",
     Forecast_Min_Temp |-> fmin, Forecast_Max_Temp |-> fmax,
     Forecast_Rain_Prob |-> None,
     Forecast_Rain_Min_mm |-> rmin, Forecast_Rain_Max_mm |-> rmax,
     Actual_Min_Temp |-> amin, Actual_Max_Temp |-> amax, Actual_Rain_mm |-> arain]

\* Forecast and observed maxima on both sides of the 1.0 boundary, in one
\* binade (23.0/22.0) and across two (32.2/31.2, 32.3/31.3).
ForecastMaxes == {None, Some(2300), Some(3220), Some(3230)}

ActualMaxes == {None, Some(2200), Some(3120), Some(3130)}

RainBounds == {<<None, None>>, <<Some(0), Some(0)>>, <<Some(0), Some(200)>>,
               <<Some(100), Some(500)>>}

ActualRains == {None, Some(0), Some(100), Some(200), Some(510)}

\* The ledgers the dashboard is rendered on: the empty one and those of one
\* row, every cell of which may be empty.
GradingLedgers ==
    {<<>>} \cup
    {<<LedgerRow(fmin, fmax, rb[1], rb[2], amin, amax, arain)>> :
        fmin \in {None, Some(1250)}, fmax \in ForecastMaxes, rb \in RainBounds,
        amin \in {None, Some(1180)}, amax \in ActualMaxes, arain \in ActualRains}

InitGrading ==
    /\ now = 1
    /\ csv \in GradingLedgers
    /\ pc = "dashboard"
    /\ today_str = 0
    /\ yesterday_str = 0
    /\ df_history = <<>>
    /\ already_ran_today = FALSE
    /\ new_records = <<>>
    /\ i = 1
    /\ j = 1
    /\ feed = NoFeed
    /\ actuals = ReturnNone
    /\ fetched = {}
    /\ failed = {}
    /\ resolver_calls = <<>>
    /\ resolved = {}
    /\ warned = {}
    /\ exit = "none"
    /\ last_saved_day = 0
    /\ show_perfect_only = FALSE
    /\ df_display = <<>>

\* One run of streamlit_app.py down to the perfect-day filter: st.stop() on
\* an empty ledger or an empty df_eval, else df_display.
Render ==
    /\ pc = "dashboard"
    /\ \E checkbox \in BOOLEAN :
         LET df == read_csv(csv)
         IN /\ show_perfect_only' = checkbox
            /\ IF df = <<>> \/ df_eval(df) = <<>>
               THEN /\ pc' = "stopped"
                    /\ df_display' = <<>>
               ELSE /\ pc' = "rendered"
                    /\ df_display' = IF checkbox THEN perfect_days(graded(df))
                                     ELSE graded(df)
    /\ UNCHANGED <<now, csv, program_vars, feed, actuals, history_vars, exit,
                   last_saved_day>>

NextGrading == Render

SpecGrading == InitGrading /\ [][NextGrading]_vars

\* ------------------------------------------------------------------ claims
Key(r) == <<r.Date, r.Station, r.Source>>

\* A row's key and its five forecast fields.
ForecastPart(r) ==
    <<r.Date, r.Station, r.Source, r.Forecast_Min_Temp, r.Forecast_Max_Temp,
      r.Forecast_Rain_Prob, r.Forecast_Rain_Min_mm, r.Forecast_Rain_Max_mm>>

ActualTriple(r) == <<r.Actual_Min_Temp, r.Actual_Max_Temp, r.Actual_Rain_mm>>

NoActuals(r) == ActualTriple(r) = <<None, None, None>>

AllActuals(r) ==
    NotNone(r.Actual_Min_Temp) /\ NotNone(r.Actual_Max_Temp) /\ NotNone(r.Actual_Rain_mm)

\* The forecast rows of date D, in ledger order (so that a duplicate shows).
ForecastRowsOf(df, D) ==
    LET rows == SelectSeq(df, LAMBDA r : r.Date = D)
    IN [k \in 1..Len(rows) |-> ForecastPart(rows[k])]

HasRowDated(df, D) == \E k \in 1..Len(df) : df[k].Date = D

RowsAt(df, D, station_name) ==
    {k \in 1..Len(df) : df[k].Date = D /\ df[k].Station = station_name}

RowsKeyed(df, D, station_name, source) ==
    {k \in 1..Len(df) : Key(df[k]) = <<D, station_name, source>>}

AllPairs == {<<STATIONS[a], SOURCES[b]>> : a \in 1..Len(STATIONS), b \in 1..Len(SOURCES)}

AllStations == Range(STATIONS)

\* The latest invocation passed the 9 AM guard and has ended.
RunEnded == pc = "exited" /\ exit \in {"complete", "exception"}

RunSaved == pc = "exited" /\ exit = "complete"

\* C1, as stated: a run on date D that follows a run on D leaves the
\* forecast rows of D as the first run left them; it adds no forecast row.
C1_SecondRunAddsNoRow ==
    [][(pc = "save" /\ last_saved_day = today_str)
         => ForecastRowsOf(csv', today_str) = ForecastRowsOf(csv, today_str)]_vars

\* C1, amended: a run on date D started on a ledger that already holds a
\* row dated D ends with the ledger holding exactly the forecast rows it
\* held; it adds no row at all.
C1_GuardedRunAddsNoRow ==
    [][(pc \notin {"idle", "exited"} /\ HasRowDated(csv, today_str))
         => /\ ForecastRowsOf(csv', today_str) = ForecastRowsOf(csv, today_str)
            /\ Len(csv') = Len(csv)]_vars

\* A second run on a date has saved, with the rows of the first in place.
C1_Witness ==
    /\ RunSaved
    /\ last_saved_day = today_str
    /\ already_ran_today
    /\ HasRowDated(csv, today_str)

\* C2: the ledger holds at most one row per (Date, Station, Source).
C2_KeyUnique ==
    \A a, b \in 1..Len(csv) : Key(csv[a]) = Key(csv[b]) => a = b

\* Runs on two dates, one of them with a failed adapter, and then a further
\* run on the second date have been saved.
C2_Witness ==
    /\ RunSaved
    /\ already_ran_today
    /\ HasRowDated(csv, today_str)
    /\ HasRowDated(csv, yesterday_str)
    /\ Len(csv) < 2 * Cardinality(AllPairs)

FanOut(df) ==
    \A a, b \in 1..Len(df) :
        (df[a].Date = df[b].Date /\ df[a].Station = df[b].Station)
            => ActualTriple(df[a]) = ActualTriple(df[b])

\* C3: the rows of one (date, station) hold the same three actual values,
\* in the table being updated and in every ledger saved from then on.
C3_FanOutConsistent == FanOut(csv) /\ FanOut(df_history)

\* A run that met yesterday's rows already resolved has resolved a station
\* again, and the several rows of that station hold actuals.
C3_Witness ==
    /\ RunSaved
    /\ \E s \in resolved :
         /\ Cardinality(RowsAt(csv, yesterday_str, s)) >= 2
         /\ \A k \in RowsAt(csv, yesterday_str, s) : AllActuals(csv[k])
    /\ \E s \in AllStations \ resolved :
         /\ Cardinality(RowsAt(csv, yesterday_str, s)) >= 2
         /\ \A k \in RowsAt(csv, yesterday_str, s) : AllActuals(csv[k])

C5_AppendOnly ==
    [][/\ Len(csv') >= Len(csv)
       /\ \A k \in 1..Len(csv) :
            \E m \in 1..Len(csv') : ForecastPart(csv'[m]) = ForecastPart(csv[k])]_vars

\* A run that found rows in the ledger has both backfilled and appended.
C5_Witness ==
    /\ RunSaved
    /\ resolved # {}
    /\ fetched # {}
    /\ Len(csv) > Cardinality(fetched)
    /\ \E k \in 1..Len(csv) : AllActuals(csv[k])

\* C6, as stated: when an adapter returned a failure value in a run, the
\* ledger holds a row of the run's date for every pair whose adapter
\* succeeded in that run.
C6_FailureIsolation ==
    (RunEnded /\ ~already_ran_today /\ failed # {})
        => \A p \in fetched : RowsKeyed(csv, today_str, p[1], p[2]) # {}

\* C6 holds of the runs that reach the SAVE section.
C6_IsolationWhenSaved ==
    (RunSaved /\ ~already_ran_today)
        => \A p \in fetched : Cardinality(RowsKeyed(csv, today_str, p[1], p[2])) = 1

\* C7, as stated: no exception leaves an adapter or the resolver.
C7_NoExceptionPropagates == exit # "exception"

\* The calls the backfill loop owes: each station once, for yesterday.
OwedResolverCalls ==
    [k \in 1..Len(STATIONS) |-> [station |-> STATIONS[k], date |-> today_str - 1]]

\* C8, as stated: an invocation that passed the 9 AM guard has called the
\* resolver once for each station, for yesterday.
C8_ActualsAlwaysRun == RunEnded => resolver_calls = OwedResolverCalls

\* C8 holds of the runs that reach the SAVE section.
C8_ActualsRunWhenSaved == RunSaved => resolver_calls = OwedResolverCalls

\* One row per (station, source) dated D, and no other row dated D.
OneRowPerPair(df, D) ==
    /\ \A p \in AllPairs : Cardinality(RowsKeyed(df, D, p[1], p[2])) = 1
    /\ Cardinality({k \in 1..Len(df) : df[k].Date = D}) = Cardinality(AllPairs)

\* The ledger after the scenario's first day: the rows of D and nothing else.
FreshDay(df, D) ==
    /\ OneRowPerPair(df, D)
    /\ Len(df) = Cardinality(AllPairs)
    /\ \A k \in 1..Len(df) : NoActuals(df[k])

GradedFor(df, D) == SelectSeq(df_eval(df), LAMBDA r : r.Date = D)

\* The ledger after the scenario's second day.
SecondDay(df, D) ==
    /\ OneRowPerPair(df, D - 1)
    /\ OneRowPerPair(df, D)
    /\ Len(df) = 2 * Cardinality(AllPairs)
    /\ \A k \in 1..Len(df) :
         IF df[k].Date = D THEN NoActuals(df[k]) ELSE AllActuals(df[k])
    /\ Len(GradedFor(df, D - 1)) = Cardinality(AllPairs)
    /\ Len(GradedFor(df, D)) = 0

\* The process ends at this step, having collected from every adapter.
EndsAfterFullCollection ==
    pc \in {"actuals", "save"} /\ pc' = "exited" /\ fetched = AllPairs

\* C9, as stated: from the empty ledger a run whose adapters all succeed
\* leaves one unresolved row per pair; the next day's run, resolving every
\* station, fills those rows and appends the new day's, and only the first
\* day's rows are graded.
C9_EndToEnd ==
    [][/\ (EndsAfterFullCollection /\ csv = <<>>) => FreshDay(csv', today_str)
       /\ (EndsAfterFullCollection /\ FreshDay(csv, yesterday_str)
             /\ resolved' = AllStations)
            => SecondDay(csv', today_str)]_vars

\* C9 holds of the runs that reach the SAVE section.
C9_EndToEndWhenSaved ==
    [][/\ (pc = "save" /\ fetched = AllPairs /\ csv = <<>>)
            => FreshDay(csv', today_str)
       /\ (pc = "save" /\ fetched = AllPairs /\ FreshDay(csv, yesterday_str)
             /\ resolved = AllStations)
            => SecondDay(csv', today_str)]_vars

C9_Reached == RunSaved /\ SecondDay(csv, today_str) /\ resolved = AllStations

\* The samples the claim selects: those dated yesterday that have a
\* temperature or, when there are none, those with a temperature among the
\* 48 most recent.
ClaimedWindow(data, yesterday) ==
    LET dated == {k \in 1..Len(data) :
                    data[k].local_date_time_full = Some(yesterday)
                    /\ NotNone(data[k].air_temp)}
    IN IF dated # {} THEN dated
       ELSE {k \in 1..Len(data) : k <= 48 /\ NotNone(data[k].air_temp)}

ClaimedTemps(data, yesterday) ==
    {data[k].air_temp[1] : k \in ClaimedWindow(data, yesterday)}

Unreachable(f) == f.http # "ok" \/ f.status_code # 200

\* The observation is the one the claim describes.
ClaimedObservation(a, data, yesterday) ==
    /\ a.kind = "dict"
    /\ a.Actual_Max_Temp = Some(SetMax(ClaimedTemps(data, yesterday)))
    /\ a.Actual_Min_Temp = Some(SetMin(ClaimedTemps(data, yesterday)))

Returned == pc = "resolver" /\ actuals.kind \in {"None", "dict"}

Gradable(r) == NotNone(r.Forecast_Max_Temp) /\ AllActuals(r)

LedgerColumns(df) == [k \in 1..Len(df) |-> [c \in Range(CSV_COLUMNS) |-> df[k][c]]]

AbsDiff(a, b) == IF a >= b THEN a - b ELSE b - a

\* The record's maximum-temperature error, as a decimal in hundredths.
DecimalMaxError(r) == AbsDiff(r.Forecast_Max_Temp[1], r.Actual_Max_Temp[1])

RainInRange(r) ==
    /\ NotNone(r.Actual_Rain_mm)
    /\ NotNone(r.Forecast_Rain_Min_mm)
    /\ NotNone(r.Forecast_Rain_Max_mm)
    /\ r.Forecast_Rain_Min_mm[1] <= r.Actual_Rain_mm[1]
    /\ r.Actual_Rain_mm[1] <= r.Forecast_Rain_Max_mm[1]

ClaimedPerfect(r) == DecimalMaxError(r) <= 100 /\ RainInRange(r)

PerfectShown == pc = "rendered" /\ show_perfect_only

\* C12, as stated: with the filter on, the records displayed are exactly
\* the graded records whose maximum-temperature error is at most 1.0 and
\* whose actual rainfall lies within the forecast range.
C12_PerfectIffWithinOne ==
    PerfectShown => LedgerColumns(df_display) = SelectSeq(df_eval(csv), ClaimedPerfect)

\* Away from an error of exactly 1.0 the filter is the one C12 describes,
\* and no record with a larger error or a missed rainfall range passes it.
C12_PerfectAwayFromBoundary ==
    PerfectShown =>
        /\ \A k \in 1..Len(df_eval(csv)) :
             DecimalMaxError(df_eval(csv)[k]) # 100 =>
                 (ClaimedPerfect(df_eval(csv)[k])
                    <=> \E m \in 1..Len(df_display) :
                          LedgerColumns(df_display)[m] = df_eval(csv)[k])
        /\ \A m \in 1..Len(df_display) : ClaimedPerfect(LedgerColumns(df_display)[m])

\* A record whose error is exactly 1.0 and whose rainfall is in range has
\* passed the filter.
C12_BoundaryShown ==
    /\ PerfectShown
    /\ \E m \in 1..Len(df_display) :
         DecimalMaxError(LedgerColumns(df_display)[m]) = 100

\* A step of the backfill loop in which fetch_bom_actuals returned actuals
\* for the station the loop is at.
ActualsUpdateStep == pc = "actuals" /\ pc' # "exited" /\ Truthy(actuals')

\* The step moves on to the next station or, after the last, to the save.
LoopContinues ==
    IF i < Len(STATIONS) THEN pc' = "actuals" /\ i' = i + 1 ELSE pc' = "save"

\* C13: an actuals update for (yesterday, station) writes the returned
\* triple to the rows of that date and station, leaving their other fields
\* and every other row as they were; when no row matches, the table, the
\* file and the collected forecasts are unchanged, the warning names the
\* station, and the loop goes on to the next station or the save; the save
\* writes the table as the loop left it.
C13_UpdateFrame ==
    [][/\ ActualsUpdateStep =>
            /\ Len(df_history') = Len(df_history)
            /\ \A k \in 1..Len(df_history) :
                 IF mask(df_history[k], yesterday_str, STATIONS[i])
                 THEN /\ ForecastPart(df_history'[k]) = ForecastPart(df_history[k])
                      /\ ActualTriple(df_history'[k]) =
                           <<actuals'.Actual_Min_Temp, actuals'.Actual_Max_Temp,
                             actuals'.Actual_Rain_mm>>
                 ELSE df_history'[k] = df_history[k]
            /\ csv' = csv /\ new_records' = new_records
            /\ LoopContinues
            /\ IF mask_any(df_history, yesterday_str, STATIONS[i])
               THEN warned' = warned
               ELSE /\ df_history' = df_history
                    /\ warned' = warned \cup {STATIONS[i]}
       /\ pc = "save" =>
            /\ Len(csv') >= Len(df_history)
            /\ SubSeq(csv', 1, Len(df_history)) = df_history]_vars

\* A saved run that warned for one station, which had no row for yesterday,
\* and updated the rows of another, next to rows it left unresolved.
C13_Witness ==
    /\ RunSaved
    /\ \E s \in warned : RowsAt(csv, yesterday_str, s) = {}
    /\ \E s \in resolved \ warned :
         /\ RowsAt(csv, yesterday_str, s) # {}
         /\ \A k \in RowsAt(csv, yesterday_str, s) : AllActuals(csv[k])
    /\ \E k \in 1..Len(csv) : NoActuals(csv[k])

InRun == pc \notin {"idle", "exited", "resolver", "dashboard", "rendered", "stopped"}

\* No row dated today or later holds an actual value.
NoActualsFromToday ==
    \A k \in 1..Len(csv) : csv[k].Date >= now => NoActuals(csv[k])

\* C14: the actual fields of a row dated D change only in a run whose date
\* is D+1 and only when that run's resolver returned actuals for the row's
\* station, in the table and in the file alike, so that otherwise the row
\* keeps what it held, absent actuals included; the rows a run appends are
\* dated with its own date and hold no actuals; and no row dated today or
\* later ever holds one.
C14_BackfillTiming ==
    /\ []NoActualsFromToday
    /\ [][/\ Len(csv') >= Len(csv)
          /\ \A k \in 1..Len(csv) :
               ActualTriple(csv'[k]) # ActualTriple(csv[k]) =>
                   /\ pc = "save"
                   /\ today_str = csv[k].Date + 1
                   /\ csv[k].Station \in resolved
          /\ \A k \in (Len(csv) + 1)..Len(csv') :
               /\ pc = "save"
               /\ csv'[k].Date = today_str
               /\ NoActuals(csv'[k])
          /\ (InRun /\ pc' # "exited") =>
               \A k \in 1..Len(df_history) :
                   ActualTriple(df_history'[k]) # ActualTriple(df_history[k]) =>
                       /\ pc = "actuals"
                       /\ today_str = df_history[k].Date + 1
                       /\ df_history[k].Station = STATIONS[i]
                       /\ Truthy(actuals')]_vars

\* A run two days after the oldest rows has resolved every station and
\* saved: a row of the oldest day is still without actuals, the rows of
\* yesterday hold them, and the rows it appended hold none.
C14_Witness ==
    /\ RunSaved
    /\ resolved = AllStations
    /\ fetched # {}
    /\ \E k \in 1..Len(csv) : csv[k].Date = today_str - 2 /\ NoActuals(csv[k])
    /\ \E k \in 1..Len(csv) : csv[k].Date = today_str - 1 /\ AllActuals(csv[k])
    /\ \E k \in 1..Len(csv) : csv[k].Date = today_str /\ NoActuals(csv[k])

====
